---- MODULE Spec2Model ----
(***************************************************************************)
(* State-machine model of the stadium handover simulation                  *)
(* (cap5_rev-05.12-uplink_6gNB_10UE_fixed_4UE_HANDOVER.cc): the scheduled  *)
(* callbacks MoveArbitroCircular, TrackUePosition, PeriodicPositionReport, *)
(* LogPowerAndHandover, TraceFlowMonitorStats and the global maps,         *)
(* counters and output streams they share.                                 *)
(*                                                                         *)
(* Units.  Simulated time is in milliseconds.  Lengths are in decimetres   *)
(* (0.1 m), so that the heights 1.7 m and 2.5 m are integers.  A squared   *)
(* distance needs more than 32 bits, so it is kept as three base-10^4      *)
(* limbs <<c2, c1, c0>> = c2*10^8 + c1*10^4 + c0 (in dm^2).                *)
(***************************************************************************)
EXTENDS Integers, Sequences, FiniteSets, TLC

\* ------------------------------------------------------------------------
\* Bounds of the model
\* ------------------------------------------------------------------------
\* refereeNodes.Create(4) and camera4kNodes.Create(10), scaled down.
NumReferees == 1
NumCameras == 1
\* Number of detector ticks explored with arbitrary reported positions.
MaxTicks == 5

\* ------------------------------------------------------------------------
\* Program constants
\* ------------------------------------------------------------------------
\* uint16_t gNbNum = 6
NumGnb == 6
\* Time simTime = MilliSeconds(15000)
SimTime == 15000
\* "if (Simulator::Now().GetSeconds() < 14.5)" of every periodic callback
Horizon == 14500
\* Seconds(0.5) between two LogPowerAndHandover ticks of one UE
DetectorPeriod == 500

NumUe == NumReferees + NumCameras
\* ueNodes.Add(refereeNodes); ueNodes.Add(camera4kNodes): index in ueNodes
UeIds == 0 .. (NumUe - 1)
GnbIds == 0 .. (NumGnb - 1)

\* ------------------------------------------------------------------------
\* Three-limb naturals for squared distances
\* ------------------------------------------------------------------------
LimbBase == 100 * 100

Abs(x) == IF x < 0 THEN 0 - x ELSE x

\* x*x for 0 <= x < 10^8, as unnormalised limbs
SqLimbs(x) ==
    LET a == x \div LimbBase
        b == x % LimbBase
    IN  <<a * a, 2 * a * b, b * b>>

Normalize(h) ==
    LET k0 == h[3] \div LimbBase
        t1 == h[2] + k0
    IN  <<h[1] + (t1 \div LimbBase), t1 % LimbBase, h[3] % LimbBase>>

BigLess(m, n) ==
    \/ m[1] < n[1]
    \/ m[1] = n[1] /\ m[2] < n[2]
    \/ m[1] = n[1] /\ m[2] = n[2] /\ m[3] < n[3]

BigZero == <<0, 0, 0>>

\* ------------------------------------------------------------------------
\* Geometry
\* ------------------------------------------------------------------------
\* gNB i stands on the catwalk at angle i*2*pi/gNbNum, radius 120 m, height
\* 25 m (coordinates rounded to the decimetre).
GnbPos(i) ==
    CASE i = 0 -> <<1200, 0, 250>>
      [] i = 1 -> <<600, 1039, 250>>
      [] i = 2 -> <<-600, 1039, 250>>
      [] i = 3 -> <<-1200, 0, 250>>
      [] i = 4 -> <<-600, -1039, 250>>
      [] OTHER -> <<600, -1039, 250>>

\* The square of the 3D distance std::sqrt(pow(dx,2) + pow(dy,2) + pow(dz,2));
\* sqrt is strictly increasing, so distances are compared by their squares.
Distance2(p, q) ==
    LET sx == SqLimbs(Abs(p[1] - q[1]))
        sy == SqLimbs(Abs(p[2] - q[2]))
        sz == SqLimbs(Abs(p[3] - q[3]))
    IN  Normalize(<<sx[1] + sy[1] + sz[1],
                    sx[2] + sy[2] + sz[2],
                    sx[3] + sy[3] + sz[3]>>)

\* ------------------------------------------------------------------------
\* Signal proxy
\* ------------------------------------------------------------------------
\* rsrp = 35.0 - (32.4 + 21.0*log10(distance) + 20.0*log10(3.7)) is strictly
\* decreasing in the distance.  A level is represented as [of |-> d2], d2
\* the squared distance that produces it, and two levels are compared
\* through it: rsrp(a) > rsrp(b) exactly when a < b.  The
\* initial "double bestRsrp = -150.0" is the level of the distance
\* 10^((152.6 - 20 log10 3.7)/21) m = 5315231.29 m, whose square is
\* 2825168368537750.58 dm^2: a cell's rsrp exceeds -150.0 exactly when its
\* squared distance is below the next integer.
InitialBestRsrp == [of |-> <<28251683, 6853, 7751>>]

Rsrp(distance) == [of |-> distance]

\* "if (rsrp > bestRsrp)"
RsrpGreater(rsrp, bestRsrp) == BigLess(rsrp.of, bestRsrp.of)

\* bestRsrp = -150.0; bestGnbId = 0; bestDistance = 0.0
InitialBest == [rsrp |-> InitialBestRsrp, gnbId |-> 0, distance |-> BigZero]

\* One iteration of "for (gnbId = 0; gnbId < gnbNodes.GetN(); ++gnbId)"
RECURSIVE FindBestGnb(_, _, _)
FindBestGnb(uePosition, gnbId, best) ==
    IF gnbId >= NumGnb THEN best
    ELSE LET distance == Distance2(uePosition, GnbPos(gnbId))
             rsrp == Rsrp(distance)
         IN  FindBestGnb(uePosition, gnbId + 1,
                 IF RsrpGreater(rsrp, best.rsrp)
                 THEN [rsrp |-> rsrp, gnbId |-> gnbId, distance |-> distance]
                 ELSE best)

BestGnb(uePosition) == FindBestGnb(uePosition, 0, InitialBest)

\* ------------------------------------------------------------------------
\* Mobility
\* ------------------------------------------------------------------------
\* Angles are in microradians.  cos and sin are evaluated on the angle
\* rounded to the middle of its 15-degree sector, so a position on the
\* field circle is exact to within 7.5 degrees.
TwoPi == 6283185
Sector == TwoPi \div 24

\* CAMPO_RADIUS (600 dm) * cos(7.5 + 15*j degrees)
Cos600 ==
    <<595, 554, 476, 365, 230, 78, -78, -230, -365, -476, -554, -595,
      -595, -554, -476, -365, -230, -78, 78, 230, 365, 476, 554, 595>>

SectorOf(angle) ==
    LET s == (angle % TwoPi) \div Sector IN IF s > 23 THEN 23 ELSE s

\* Vector(CAMPO_RADIUS*cos(angle), CAMPO_RADIUS*sin(angle), ARBITRO_HEIGHT)
CirclePosition(angle) ==
    LET s == SectorOf(angle)
    IN  <<Cos600[s + 1], Cos600[((29 - s) % 24) + 1], 17>>

\* std::vector<Vector> cameraPositions
CameraPositions ==
    <<<<400, 600, 25>>, <<600, 600, 25>>, <<-300, 600, 25>>,
      <<-700, 600, 25>>, <<-900, -200, 25>>, <<800, -200, 25>>,
      <<800, -600, 25>>, <<400, -600, 25>>, <<-400, -600, 25>>,
      <<-800, -600, 25>>>>

IsReferee(ueId) == ueId < NumReferees

\* Positions set in main before the run: referee i at angle
\* i*2*pi/refereeNodes.GetN(), camera j at cameraPositions[j].
InitialPosition(ueId) ==
    IF IsReferee(ueId)
    THEN CirclePosition((ueId * TwoPi) \div NumReferees)
    ELSE CameraPositions[((ueId - NumReferees) % 10) + 1]

\* const double ARBITRO_SPEED = 5.0 (m/s), in dm/s
ArbitroSpeed == 50

\* deltaAngle = (ARBITRO_SPEED * 0.5) / CAMPO_RADIUS = 0.0416667 rad
DeltaAngle == 41667

\* ueAngles[ueId] = (ueId * 2.0 * M_PI) / 4.0 on the first call, then
\* ueAngles[ueId] += deltaAngle
NextAngle(angles, ueId) ==
    (IF ueId \in DOMAIN angles THEN angles[ueId] ELSE (ueId * TwoPi) \div 4)
        + DeltaAngle

\* ------------------------------------------------------------------------
\* State
\* ------------------------------------------------------------------------
VARIABLES
    now,                  \* Simulator::Now(), ms
    events,               \* the scheduler's pending events
    nextUid,              \* the uid the next scheduled event gets
    running,              \* Simulator::Run() has not returned
    ueAngles,             \* static std::map ueAngles of MoveArbitroCircular
    uePos,                \* position held by each UE's MobilityModel
    previousServingCell,  \* std::map<uint32_t, uint32_t>
    handoverCount,
    manualHandoverCount,
    simStats,
    powerFile,            \* power_measurements_stadium.csv
    handoverFile,         \* handover_log_stadium.txt
    positionFile,         \* ue_positions_stadium.csv
    monitor,              \* the FlowMonitor's cumulative FlowStats per flow
    lastFlowStats,        \* std::map<FlowId, FlowMonitor::FlowStats>
    lastRefereeActivityTime,  \* std::map<uint32_t, double>, ms
    flowStatsFile,        \* flow_stats.csv
    flowStatsHeaderWritten,
    attachLog,            \* the calls nrHelper->AttachToClosestGnb of the watchdog
    console,              \* the kinds of lines written to std::cout
    unopenable            \* the output files the file system refuses to open

vars == <<now, events, nextUid, running, ueAngles, uePos,
          previousServingCell, handoverCount, manualHandoverCount, simStats,
          powerFile, handoverFile, positionFile, monitor, lastFlowStats,
          lastRefereeActivityTime, flowStatsFile, flowStatsHeaderWritten,
          attachLog, console, unopenable>>

flowVars == <<monitor, lastFlowStats, lastRefereeActivityTime, flowStatsFile,
              flowStatsHeaderWritten>>

detectorVars == <<previousServingCell, handoverCount, manualHandoverCount,
                  simStats, powerFile, handoverFile>>

\* ------------------------------------------------------------------------
\* Scheduler
\* ------------------------------------------------------------------------
Event(time, uid, fn, ueId) ==
    [time |-> time, uid |-> uid, fn |-> fn, ueId |-> ueId]

\* Events run in order of time, and of scheduling among those of one time.
Earlier(e, f) == e.time < f.time \/ (e.time = f.time /\ e.uid <= f.uid)

NextEvent == CHOOSE e \in events : \A f \in events : Earlier(e, f)

\* The Simulator::Schedule calls of main, in the order main makes them.
MoveEvents ==
    {Event(800 + 125 * i, i, "MoveArbitroCircular", i) :
        i \in 0 .. (NumReferees - 1)}
TrackEvents ==
    {Event(2000 + 100 * i, NumReferees + 1 + 2 * i, "TrackUePosition", i) :
        i \in UeIds}
TraceEvents ==
    {Event(100, NumReferees, "TraceFlowMonitorStats", 0)}
DetectorEvents ==
    {Event(2500 + 100 * i, NumReferees + 2 + 2 * i, "LogPowerAndHandover", i) :
        i \in UeIds}
ReportEvents ==
    {Event(1000, NumReferees + 1 + 2 * NumUe, "PeriodicPositionReport", 0)}
StopEvents ==
    {Event(SimTime, NumReferees + 2 + 2 * NumUe, "Stop", 0)}
FirstFreeUid == NumReferees + 3 + 2 * NumUe

\* events' and nextUid' of a handler that consumes e and, when again holds,
\* schedules itself delay ms ahead.
Reschedule(e, again, delay) ==
    /\ now' = e.time
    /\ events' = (events \ {e}) \cup
                 (IF again
                  THEN {Event(e.time + delay, nextUid, e.fn, e.ueId)}
                  ELSE {})
    /\ nextUid' = IF again THEN nextUid + 1 ELSE nextUid
    /\ UNCHANGED running

\* ------------------------------------------------------------------------
\* LogPowerAndHandover
\* ------------------------------------------------------------------------
\* previousServingCell[ueId] (std::map::operator[]: 0 for a missing key)
ServingCellOf(prev, ueId) == IF ueId \in DOMAIN prev THEN prev[ueId] ELSE 0

\* "if (previousServingCell.find(ueId) != end)
\*      if (previousServingCell[ueId] != bestGnbId) handoverDetected = true"
HandoverDetectedMutantKnown(prev, ueId, bestGnbId) ==
    ueId \in DOMAIN prev
HandoverDetectedMutantFirstTick(prev, ueId, bestGnbId) ==
    ueId \notin DOMAIN prev \/ prev[ueId] # bestGnbId
HandoverDetectedMutantAnyEntity(prev, ueId, bestGnbId) ==
    \E u \in DOMAIN prev : prev[u] # bestGnbId
HandoverDetected(prev, ueId, bestGnbId) ==
    ueId \in DOMAIN prev /\ prev[ueId] # bestGnbId

\* handoverCount++ (and the two other counters) in the change branch
CountAfterMutantAlways(count, detected) == count + 1
CountAfter(count, detected) == IF detected THEN count + 1 ELSE count

\* previousServingCell[ueId] = bestGnbId
StoreServingCellMutantOnFirst(prev, ueId, bestGnbId) ==
    [u \in DOMAIN prev \cup {ueId} |->
        IF u \in DOMAIN prev THEN prev[u] ELSE bestGnbId]
StoreServingCellMutantShared(prev, ueId, bestGnbId) ==
    [u \in DOMAIN prev \cup {ueId} |-> bestGnbId]
StoreServingCell(prev, ueId, bestGnbId) ==
    [u \in DOMAIN prev \cup {ueId} |-> IF u = ueId THEN bestGnbId ELSE prev[u]]

\* One row of the measurement log
PowerRowMutantFlag(time, ueId, best, detected) ==
    [time |-> time, ueId |-> ueId, bestGnbId |-> best.gnbId,
     rsrp |-> best.rsrp, distance |-> best.distance, handover |-> "NO"]
PowerRowMutantYes(time, ueId, best, detected) ==
    [time |-> time, ueId |-> ueId, bestGnbId |-> best.gnbId,
     rsrp |-> best.rsrp, distance |-> best.distance, handover |-> "YES"]
PowerRow(time, ueId, best, detected) ==
    [time |-> time, ueId |-> ueId, bestGnbId |-> best.gnbId,
     rsrp |-> best.rsrp, distance |-> best.distance,
     handover |-> IF detected THEN "YES" ELSE "NO"]

\* One line of the handover log
HandoverLineMutantSourceAfterStore(time, ueId, from, best, total) ==
    [time |-> time, ueId |-> ueId, from |-> best.gnbId, to |-> best.gnbId,
     rsrp |-> best.rsrp, distance |-> best.distance, total |-> total]
HandoverLine(time, ueId, from, best, total) ==
    [time |-> time, ueId |-> ueId, from |-> from, to |-> best.gnbId,
     rsrp |-> best.rsrp, distance |-> best.distance, total |-> total]

\* "if (Simulator::Now().GetSeconds() < 14.5)" of LogPowerAndHandover
DetectorContinuesMutantAlways(time) == TRUE
DetectorContinues(time) == time < Horizon

\* What one call of LogPowerAndHandover for ueId at uePosition makes of the
\* stored serving cells, the handover counter and the lines of the handover
\* log.
AfterDetector(d, ueId, uePosition, time) ==
    LET best == BestGnb(uePosition)
        detected == HandoverDetected(d.prev, ueId, best.gnbId)
        total == CountAfter(d.count, detected)
    IN  [prev |-> StoreServingCell(d.prev, ueId, best.gnbId),
         count |-> total,
         lines |-> IF detected
                   THEN Append(d.lines,
                            HandoverLine(time, ueId,
                                ServingCellOf(d.prev, ueId), best, total))
                   ELSE d.lines]

\* "if (!file.is_open()) file.open(name)": a refused open leaves the stream
\* closed with its failbit set, a granted one clears the failbit.
OpenStream(file, name) ==
    IF file.isOpen THEN file
    ELSE IF name \in unopenable THEN [file EXCEPT !.fail = TRUE]
    ELSE [file EXCEPT !.isOpen = TRUE, !.fail = FALSE]

\* "file << header << std::endl": no effect on a stream whose failbit is set
WriteHeader(file) ==
    IF file.fail THEN file ELSE [file EXCEPT !.headers = @ + 1]

\* "file << ... << std::endl" for each row: no effect once the failbit is set
WriteRows(file, rows) ==
    IF file.fail THEN file ELSE [file EXCEPT !.rows = @ \o rows]

\* The callback run for event e, the UE's MobilityModel reporting uePosition.
LogPowerAndHandover(e, uePosition) ==
    LET ueId == e.ueId
        best == BestGnb(uePosition)
        detected == HandoverDetected(previousServingCell, ueId, best.gnbId)
        total == CountAfter(handoverCount, detected)
    IN  /\ handoverCount' = total
        /\ manualHandoverCount' = CountAfter(manualHandoverCount, detected)
        /\ simStats' = [simStats EXCEPT
                           !.handovers = CountAfter(simStats.handovers, detected)]
        /\ handoverFile' =
               IF detected
               THEN WriteRows(OpenStream(handoverFile, "handoverFile"),
                        <<HandoverLine(e.time, ueId,
                              ServingCellOf(previousServingCell, ueId),
                              best, total)>>)
               ELSE handoverFile
        /\ console' = IF detected THEN console \cup {"HANDOVER"} ELSE console
        /\ previousServingCell' =
               StoreServingCell(previousServingCell, ueId, best.gnbId)
        /\ powerFile' =
               WriteRows(IF powerFile.isOpen THEN powerFile
                         ELSE WriteHeader(OpenStream(powerFile, "powerFile")),
                         <<PowerRow(e.time, ueId, best, detected)>>)
        /\ Reschedule(e, DetectorContinues(e.time), DetectorPeriod)

\* ------------------------------------------------------------------------
\* NotifyHandoverEndOkUe, NotifyHandoverStartUe
\* ------------------------------------------------------------------------
\* simStats after a callback of the protocol layer: the callbacks write one
\* line to the console and touch no counter.
SimStatsAfterNotifyMutantCounts(stats) ==
    [stats EXCEPT !.handovers = @ + 1]
SimStatsAfterNotify(stats) == stats

\* The callback connected to the UE's HandoverEndOk trace
NotifyHandoverEndOkUe ==
    /\ console' = console \cup {"HANDOVER_OK"}
    /\ simStats' = SimStatsAfterNotify(simStats)
    /\ UNCHANGED <<now, events, nextUid, running, ueAngles, uePos,
                   previousServingCell, handoverCount, manualHandoverCount,
                   powerFile, handoverFile, positionFile, flowVars, attachLog,
                   unopenable>>

\* The callback connected to the UE's HandoverStart trace
NotifyHandoverStartUe ==
    /\ console' = console \cup {"HANDOVER_START"}
    /\ simStats' = SimStatsAfterNotify(simStats)
    /\ UNCHANGED <<now, events, nextUid, running, ueAngles, uePos,
                   previousServingCell, handoverCount, manualHandoverCount,
                   powerFile, handoverFile, positionFile, flowVars, attachLog,
                   unopenable>>

\* ------------------------------------------------------------------------
\* MoveArbitroCircular, TrackUePosition, PeriodicPositionReport, Stop
\* ------------------------------------------------------------------------
\* Seconds(0.5) of MoveArbitroCircular and PeriodicPositionReport
MovePeriod == 500

MoveArbitroCircular(e) ==
    LET angle == NextAngle(ueAngles, e.ueId)
    IN  /\ ueAngles' = [u \in DOMAIN ueAngles \cup {e.ueId} |->
                           IF u = e.ueId THEN angle ELSE ueAngles[u]]
        /\ uePos' = [uePos EXCEPT ![e.ueId] = CirclePosition(angle)]
        /\ Reschedule(e, e.time < Horizon, MovePeriod)
        /\ UNCHANGED <<detectorVars, positionFile, flowVars, attachLog,
                       console, unopenable>>

\* mobility->GetVelocity(): the velocity of a ConstantVelocityMobilityModel
\* (referees) is never set, a ConstantPositionMobilityModel (cameras) has none.
Velocity(ueId) == <<0, 0, 0>>

\* The largest r with r*r <= n
RECURSIVE ISqrtFrom(_, _)
ISqrtFrom(n, r) == IF (r + 1) * (r + 1) > n THEN r ELSE ISqrtFrom(n, r + 1)

\* std::sqrt(vel.x*vel.x + vel.y*vel.y + vel.z*vel.z), in dm/s
Speed(vel) == ISqrtFrom(vel[1] * vel[1] + vel[2] * vel[2] + vel[3] * vel[3], 0)

\* Seconds(0.5 + offset), offset = (ueId % 5) * 0.1
TrackDelay(ueId) == 500 + (ueId % 5) * 100

\* "if (Simulator::Now().GetSeconds() < 14.5)" of TrackUePosition
TrackContinuesMutantAlways(time) == TRUE
TrackContinues(time) == time < Horizon

TrackUePosition(e) ==
    /\ positionFile' =
           WriteRows(IF positionFile.isOpen THEN positionFile
                     ELSE WriteHeader(OpenStream(positionFile, "positionFile")),
                     <<[time |-> e.time, ueId |-> e.ueId,
                        pos |-> uePos[e.ueId],
                        speed |-> Speed(Velocity(e.ueId))]>>)
    /\ Reschedule(e, TrackContinues(e.time), TrackDelay(e.ueId))
    /\ UNCHANGED <<detectorVars, ueAngles, uePos, flowVars, attachLog,
                   console, unopenable>>

\* Writes to the console only.
PeriodicPositionReport(e) ==
    /\ console' = console \cup {"Position Report"}
    /\ Reschedule(e, e.time < Horizon, MovePeriod)
    /\ UNCHANGED <<detectorVars, ueAngles, uePos, positionFile, flowVars,
                   attachLog, unopenable>>

\* Simulator::Stop(simTime): Simulator::Run() returns, pending events stay.
Stop(e) ==
    /\ now' = e.time
    /\ events' = events \ {e}
    /\ running' = FALSE
    /\ UNCHANGED <<nextUid, detectorVars, ueAngles, uePos, positionFile,
                   flowVars, attachLog, console, unopenable>>

\* ------------------------------------------------------------------------
\* Nodes, addresses and flows
\* ------------------------------------------------------------------------
\* Node ids follow creation order: gnbNodes.Create(gNbNum) first, then the
\* referees, then the cameras, then the three nodes of the
\* NrPointToPointEpcHelper (PGW, SGW, MME), then the remote host.
NodeIdOfUeMutantEntitiesFirst(ueId) == ueId
NodeIdOfUe(ueId) == NumGnb + ueId

RefereeNodeIds == {NodeIdOfUe(i) : i \in 0 .. (NumReferees - 1)}
PgwNodeId == NumGnb + NumUe
RemoteHostNodeId == PgwNodeId + 3
NodeIds == 0 .. RemoteHostNodeId

\* An address a.0.0.h is <<a, h>>.  AssignUeIpv4Address gives the UEs
\* 7.0.0.2, 7.0.0.3, ... in the order of ueNodes; the remote host is 1.0.0.2.
RemoteHostAddress == <<1, 2>>
UeAddress(ueId) == <<7, ueId + 2>>
\* ipv4->GetAddress(1, 0).GetLocal() of a node (a gNB or a node of the core:
\* the address of its first core-network link, outside 7.0.0.0/8 from .2 on)
NodeAddress(nodeId) ==
    IF nodeId < NumGnb THEN <<10, nodeId + 1>>
    ELSE IF nodeId < PgwNodeId THEN UeAddress(nodeId - NumGnb)
    ELSE IF nodeId < RemoteHostNodeId THEN <<14, nodeId - PgwNodeId + 1>>
    ELSE RemoteHostAddress

\* classifier->FindFlow(flowId): the uplink flow of each UE to the remote
\* host, and two further flows a classifier may hold: a downlink flow to
\* the first referee and an uplink flow from an address that no node owns.
UplinkFlowIds == 1 .. NumUe
DownlinkFlowId == NumUe + 1
UnownedUplinkFlowId == NumUe + 2
UnownedAddress == <<7, 250>>
FlowIds == 1 .. UnownedUplinkFlowId

FindFlow(flowId) ==
    IF flowId \in UplinkFlowIds
    THEN [sourceAddress |-> UeAddress(flowId - 1),
          destinationAddress |-> RemoteHostAddress]
    ELSE IF flowId = DownlinkFlowId
    THEN [sourceAddress |-> RemoteHostAddress,
          destinationAddress |-> UeAddress(0)]
    ELSE [sourceAddress |-> UnownedAddress,
          destinationAddress |-> RemoteHostAddress]

\* t.sourceAddress.CombineMask("255.0.0.0") == "7.0.0.0" ? "UL" : "DL"
Direction(t) == IF t.sourceAddress[1] = 7 THEN "UL" ELSE "DL"

\* The loop over NodeList: the id of the first node whose address is ueIp,
\* 0 when there is none.
RECURSIVE ResolveFromMutantCount(_, _)
ResolveFromMutantCount(ueIp, i) ==
    IF i > RemoteHostNodeId THEN i
    ELSE IF NodeAddress(i) = ueIp THEN i
    ELSE ResolveFromMutantCount(ueIp, i + 1)

RECURSIVE ResolveFrom(_, _)
ResolveFrom(ueIp, i) ==
    IF i > RemoteHostNodeId THEN 0
    ELSE IF NodeAddress(i) = ueIp THEN i
    ELSE ResolveFrom(ueIp, i + 1)

ResolveUeId(t) ==
    ResolveFrom(IF Direction(t) = "UL" THEN t.sourceAddress
                ELSE t.destinationAddress, 0)

\* ------------------------------------------------------------------------
\* FlowMonitor (cumulative counters; delaySum and jitterSum in microseconds)
\* ------------------------------------------------------------------------
ZeroStats ==
    [rxBytes |-> 0, rxPackets |-> 0, delaySum |-> 0, jitterSum |-> 0,
     lostPackets |-> 0]

AddStats(a, b) ==
    [rxBytes |-> a.rxBytes + b.rxBytes,
     rxPackets |-> a.rxPackets + b.rxPackets,
     delaySum |-> a.delaySum + b.delaySum,
     jitterSum |-> a.jitterSum + b.jitterSum,
     lostPackets |-> a.lostPackets + b.lostPackets]

\* One received packet of 1000 bytes of payload, 2 ms late, 0.3 ms of jitter
OnePacket ==
    [rxBytes |-> 1028, rxPackets |-> 1, delaySum |-> 2000, jitterSum |-> 300,
     lostPackets |-> 0]
OneLost == [ZeroStats EXCEPT !.lostPackets = 1]
\* Ten received packets of 12500 bytes in all, and one packet lost
Burst ==
    [rxBytes |-> 12500, rxPackets |-> 10, delaySum |-> 25000,
     jitterSum |-> 4000, lostPackets |-> 1]

\* What a flow's counters may gain between two ticks of the differencer.
Gains == {ZeroStats, OnePacket, OneLost, Burst}

\* Time udpAppStartTime = MilliSeconds(300)
UdpAppStartTime == 300

\* The counters at time, the UEs' uplink flows each delivering one packet
\* per tick once the applications have started.
SteadyTraffic(stats, time) ==
    IF time <= UdpAppStartTime THEN stats
    ELSE [f \in UplinkFlowIds |->
             AddStats(IF f \in DOMAIN stats THEN stats[f] ELSE ZeroStats,
                      OnePacket)]

\* The counters a tick may find: every known flow has gained one of Gains,
\* and at most one more flow of appearing has become known.
MonitorStates(stats, appearing) ==
    LET Advance(dom) ==
            {[f \in dom |->
                 AddStats(IF f \in DOMAIN stats THEN stats[f] ELSE ZeroStats,
                          g[f])] : g \in [dom -> Gains]}
    IN  UNION {Advance(dom) :
                 dom \in {DOMAIN stats} \cup
                         {DOMAIN stats \cup {f} : f \in appearing \ DOMAIN stats}}

\* ------------------------------------------------------------------------
\* TraceFlowMonitorStats
\* ------------------------------------------------------------------------
\* Seconds(0.1)
TracePeriod == 100

Ratio(num, den) == [num |-> num, den |-> den]
RatioEq(a, b) == a.num * b.den = b.num * a.den

\* "double interval = 0.1": interval * 1000.0
IntervalMs == 100

\* (bytes * 8.0) / (interval * 1000.0), in kbps
ThroughputMutantBytes(bytes) == Ratio(bytes, IntervalMs)
Throughput(bytes) == Ratio(bytes * 8, IntervalMs)

\* "if (flowStats.rxPackets > lastStats.rxPackets)"
RxIncreasedMutantAlways(rxPackets, lastRxPackets) == TRUE
RxIncreased(rxPackets, lastRxPackets) == rxPackets > lastRxPackets

\* uint32_t subtraction: a result below 0 stands for that value plus 2^32.
Uint32SubMutantReversed(a, b) == b - a
Uint32Sub(a, b) == a - b

\* "auto it = lastFlowStats.find(flowId); if (it != lastFlowStats.end())"
HasSnapshot(last, flowId) == flowId \in DOMAIN last

\* The metrics of a flow seen for the first time
MetricsFirst(flowStats) ==
    LET rxIncreased == flowStats.rxPackets > 0
    IN  [rxIncreased |-> rxIncreased,
         throughput |-> IF rxIncreased
                        THEN Throughput(flowStats.rxBytes)
                        ELSE Ratio(0, 1),
         latency |-> IF rxIncreased
                     THEN Ratio(flowStats.delaySum, 1000 * flowStats.rxPackets)
                     ELSE Ratio(0, 1),
         jitter |-> IF rxIncreased
                    THEN Ratio(flowStats.jitterSum, 1000 * flowStats.rxPackets)
                    ELSE Ratio(0, 1),
         packetLoss |-> flowStats.lostPackets]

\* The first-observation formulas applied to a flow that has a snapshot
MetricsWithSnapshotMutantNoDiff(flowStats, lastStats) ==
    MetricsFirst(flowStats)

\* The metrics of one flow against its previous snapshot
\* ((delta_bytes * 8.0) / (interval * 1000.0), interval = 0.1; delay sums
\* .GetSeconds() * 1000.0 / delta_packets).
MetricsWithSnapshot(flowStats, lastStats) ==
    LET rxIncreased == RxIncreased(flowStats.rxPackets, lastStats.rxPackets)
        packets == flowStats.rxPackets - lastStats.rxPackets
    IN  [rxIncreased |-> rxIncreased,
         throughput |-> IF rxIncreased
                        THEN Throughput(flowStats.rxBytes - lastStats.rxBytes)
                        ELSE Ratio(0, 1),
         latency |-> IF rxIncreased
                     THEN Ratio(flowStats.delaySum - lastStats.delaySum,
                                1000 * packets)
                     ELSE Ratio(0, 1),
         jitter |-> IF rxIncreased
                    THEN Ratio(flowStats.jitterSum - lastStats.jitterSum,
                               1000 * packets)
                    ELSE Ratio(0, 1),
         packetLoss |-> Uint32Sub(flowStats.lostPackets, lastStats.lostPackets)]

Metrics(last, flowId, flowStats) ==
    IF HasSnapshot(last, flowId)
    THEN MetricsWithSnapshot(flowStats, last[flowId])
    ELSE MetricsFirst(flowStats)

\* "direction == UL && rxIncreased && refereeNodeIds.find(ueId) != end"
MarksActivityMutantAnyDirection(t, rxIncreased, ueId) ==
    rxIncreased /\ ueId \in RefereeNodeIds
MarksActivity(t, rxIncreased, ueId) ==
    Direction(t) = "UL" /\ rxIncreased /\ ueId \in RefereeNodeIds

\* One row of the flow-statistics log
FlowRow(time, flowId, m) ==
    LET t == FindFlow(flowId)
    IN  [time |-> time, ueId |-> ResolveUeId(t), flowId |-> flowId,
         direction |-> Direction(t), src |-> t.sourceAddress,
         dst |-> t.destinationAddress, throughput |-> m.throughput,
         latency |-> m.latency, jitter |-> m.jitter,
         packetLoss |-> m.packetLoss]

\* The rows of one tick, in the order of the flow ids ("for (auto const&
\* [flowId, flowStats] : stats)" over a std::map)
RECURSIVE FlowRowsFromMutantActiveOnly(_, _, _, _)
FlowRowsFromMutantActiveOnly(time, stats, last, flowId) ==
    IF flowId > UnownedUplinkFlowId THEN <<>>
    ELSE IF flowId \in DOMAIN stats
            /\ Metrics(last, flowId, stats[flowId]).rxIncreased
    THEN <<FlowRow(time, flowId, Metrics(last, flowId, stats[flowId]))>>
             \o FlowRowsFromMutantActiveOnly(time, stats, last, flowId + 1)
    ELSE FlowRowsFromMutantActiveOnly(time, stats, last, flowId + 1)

\* lastFlowStats[flowId] = flowStats, for every flow of stats
StoreSnapshotsMutantFirstOnly(last, stats) ==
    [f \in DOMAIN last \cup DOMAIN stats |->
        IF f \in DOMAIN last THEN last[f] ELSE stats[f]]
StoreSnapshots(last, stats) ==
    [f \in DOMAIN last \cup DOMAIN stats |->
        IF f \in DOMAIN stats THEN stats[f] ELSE last[f]]

\* Simulator::Schedule(Seconds(0.1), &TraceFlowMonitorStats, ...), under no
\* condition
TraceContinuesMutantHorizon(time) == time < Horizon
TraceContinues(time) == TRUE

RECURSIVE FlowRowsFrom(_, _, _, _)
FlowRowsFrom(time, stats, last, flowId) ==
    IF flowId > UnownedUplinkFlowId THEN <<>>
    ELSE IF flowId \in DOMAIN stats
    THEN <<FlowRow(time, flowId, Metrics(last, flowId, stats[flowId]))>>
             \o FlowRowsFrom(time, stats, last, flowId + 1)
    ELSE FlowRowsFrom(time, stats, last, flowId + 1)

\* The callback run for event e, GetFlowStats() returning stats.
TraceFlowMonitorStats(e, stats) ==
    LET active ==
            {ResolveUeId(FindFlow(f)) : f \in
                {g \in DOMAIN stats :
                    MarksActivity(FindFlow(g),
                        Metrics(lastFlowStats, g, stats[g]).rxIncreased,
                        ResolveUeId(FindFlow(g)))}}
    IN  /\ monitor' = stats
        /\ flowStatsHeaderWritten' = TRUE
        /\ flowStatsFile' =
               LET opened == OpenStream(flowStatsFile, "flowStatsFile")
               IN  WriteRows(IF flowStatsHeaderWritten THEN opened
                             ELSE WriteHeader(opened),
                             FlowRowsFrom(e.time, stats, lastFlowStats, 1))
        /\ lastFlowStats' = StoreSnapshots(lastFlowStats, stats)
        /\ lastRefereeActivityTime' =
               [n \in DOMAIN lastRefereeActivityTime \cup active |->
                   IF n \in active THEN e.time ELSE lastRefereeActivityTime[n]]
        /\ Reschedule(e, TraceContinues(e.time), TracePeriod)
        /\ UNCHANGED <<detectorVars, ueAngles, uePos, positionFile, attachLog,
                       console, unopenable>>

\* ------------------------------------------------------------------------
\* CheckAndReconnectUes
\* ------------------------------------------------------------------------
\* const double inactivityThreshold = 1.5
InactivityThreshold == 1500
\* Seconds(2.0) between two checks
WatchdogPeriod == 2000

\* "lastActiveTime != lowest() && (now - lastActiveTime) <= inactivityThreshold"
IsActiveMutantStrict(last, nodeId, time) ==
    nodeId \in DOMAIN last /\ time - last[nodeId] < InactivityThreshold
IsActiveMutantUnknownActive(last, nodeId, time) ==
    nodeId \notin DOMAIN last \/ time - last[nodeId] <= InactivityThreshold
IsActiveMutantNever(last, nodeId, time) == FALSE
IsActive(last, nodeId, time) ==
    nodeId \in DOMAIN last /\ time - last[nodeId] <= InactivityThreshold

\* "if (refereeNodeIds.find(nodeId) == refereeNodeIds.end()) continue;"
IsMonitoredMutantAll(nodeId) == TRUE
IsMonitoredMutantStatic(nodeId) == nodeId \notin RefereeNodeIds
IsMonitored(nodeId) == nodeId \in RefereeNodeIds

\* "elapsed = (lastActiveTime == lowest()) ? -1.0 : (now - lastActiveTime)",
\* printed as N/A when negative
Elapsed(last, nodeId, time) ==
    IF nodeId \in DOMAIN last THEN time - last[nodeId] ELSE -1

\* The loop "for (i = 0; i < ueNetDevs.GetN(); ++i)" from index i on: the
\* activity map and the attachment calls it leaves.
RECURSIVE WatchdogFrom(_, _, _, _)
WatchdogFrom(i, last, log, time) ==
    IF i >= NumUe THEN [last |-> last, log |-> log]
    ELSE LET nodeId == NodeIdOfUe(i)
         IN  IF ~IsMonitored(nodeId) \/ IsActive(last, nodeId, time)
             THEN WatchdogFrom(i + 1, last, log, time)
             ELSE WatchdogFrom(i + 1,
                      [n \in DOMAIN last \cup {nodeId} |->
                          IF n = nodeId THEN time ELSE last[n]],
                      Append(log, [time |-> time, singleUe |-> <<nodeId>>,
                                   elapsed |-> Elapsed(last, nodeId, time)]),
                      time)

\* The callback run for event e.
CheckAndReconnectUes(e) ==
    LET after == WatchdogFrom(0, lastRefereeActivityTime, attachLog, e.time)
    IN  /\ lastRefereeActivityTime' = after.last
        /\ attachLog' = after.log
        /\ console' = IF Len(after.log) > Len(attachLog)
                      THEN console \cup {"RECONNECT"} ELSE console
        /\ Reschedule(e, e.time < Horizon, WatchdogPeriod)
        /\ UNCHANGED <<detectorVars, ueAngles, uePos, positionFile, monitor,
                       lastFlowStats, flowStatsFile, flowStatsHeaderWritten,
                       unopenable>>

\* ------------------------------------------------------------------------
\* Specifications
\* ------------------------------------------------------------------------
InitWith(activity) ==
    /\ now = 0
    /\ running = TRUE
    /\ nextUid = FirstFreeUid
    /\ ueAngles = [u \in {} |-> 0]
    /\ uePos = [u \in UeIds |-> InitialPosition(u)]
    /\ previousServingCell = [u \in {} |-> 0]
    /\ handoverCount = 0
    /\ manualHandoverCount = 0
    /\ simStats = [handovers |-> 0, connectionEstablishments |-> 0,
                   connectionReconfiguration |-> 0]
    /\ powerFile = [isOpen |-> FALSE, fail |-> FALSE, headers |-> 0, rows |-> <<>>]
    /\ handoverFile = [isOpen |-> FALSE, fail |-> FALSE, rows |-> <<>>]
    /\ positionFile = [isOpen |-> FALSE, fail |-> FALSE, headers |-> 0, rows |-> <<>>]
    /\ monitor = [f \in {} |-> ZeroStats]
    /\ lastFlowStats = [f \in {} |-> ZeroStats]
    /\ lastRefereeActivityTime = activity
    /\ flowStatsFile = [isOpen |-> FALSE, fail |-> FALSE, headers |-> 0, rows |-> <<>>]
    /\ flowStatsHeaderWritten = FALSE
    /\ attachLog = <<>>
    /\ console = {}

\* The names of the four output files
StreamNames == {"powerFile", "handoverFile", "positionFile", "flowStatsFile"}

\* "lastRefereeActivityTime[nodeId] = 0.0" for every referee
RefereesAtZero == [n \in RefereeNodeIds |-> 0]

\* The state main builds, every output file openable
InitState == InitWith(RefereesAtZero) /\ unopenable = {}

\* The run of main: every callback at the time the scheduler gives it, each
\* UE where MoveArbitroCircular or its fixed placement puts it.
Init ==
    /\ InitState
    /\ events = MoveEvents \cup TraceEvents \cup TrackEvents
                    \cup DetectorEvents \cup ReportEvents \cup StopEvents

Fires(fn) == running /\ events # {} /\ NextEvent.fn = fn

RunMove == Fires("MoveArbitroCircular") /\ MoveArbitroCircular(NextEvent)
RunTrack == Fires("TrackUePosition") /\ TrackUePosition(NextEvent)
RunReport == Fires("PeriodicPositionReport") /\ PeriodicPositionReport(NextEvent)
RunDetector ==
    /\ Fires("LogPowerAndHandover")
    /\ LogPowerAndHandover(NextEvent, uePos[NextEvent.ueId])
    /\ UNCHANGED <<ueAngles, uePos, positionFile, flowVars, attachLog,
                   unopenable>>
RunTrace ==
    /\ Fires("TraceFlowMonitorStats")
    /\ TraceFlowMonitorStats(NextEvent, SteadyTraffic(monitor, NextEvent.time))
RunStop == Fires("Stop") /\ Stop(NextEvent)

Next == RunMove \/ RunTrack \/ RunReport \/ RunDetector \/ RunTrace \/ RunStop

Spec == Init /\ [][Next]_vars

\* The run of main in a directory where the files of unopenable cannot be
\* created.
InitOpenFailure ==
    /\ InitWith(RefereesAtZero)
    /\ unopenable \in SUBSET StreamNames
    /\ events = MoveEvents \cup TraceEvents \cup TrackEvents
                    \cup DetectorEvents \cup ReportEvents \cup StopEvents

SpecOpenFailure == InitOpenFailure /\ [][Next]_vars

\* The detector at its scheduled times, the mobility provider reporting any
\* position of ReportedPositions at each tick.
NearGnb0 == <<600, 0, 17>>
Centre == <<0, 0, 17>>
NearGnb3 == <<-600, 0, 17>>
FarWest == <<-60000000, 0, 17>>
FarNorth == <<0, 60000000, 17>>
ReportedPositions == {NearGnb0, Centre, NearGnb3, FarWest, FarNorth}

InitDetector == InitState /\ events = DetectorEvents

DetectorTick ==
    /\ Fires("LogPowerAndHandover")
    /\ Len(powerFile.rows) < MaxTicks
    /\ \E p \in ReportedPositions :
          /\ uePos' = [uePos EXCEPT ![NextEvent.ueId] = p]
          /\ LogPowerAndHandover(NextEvent, p)
    /\ UNCHANGED <<ueAngles, positionFile, flowVars, attachLog, unopenable>>

NextDetector == DetectorTick

SpecDetector == InitDetector /\ [][NextDetector]_vars

\* The detector as above, and the protocol layer reporting the start or the
\* end of a handover of its own at any moment of the run.
HandoverStartReported ==
    /\ running /\ events # {}
    /\ Len(powerFile.rows) < MaxTicks
    /\ NotifyHandoverStartUe

HandoverEndReported ==
    /\ running /\ events # {}
    /\ Len(powerFile.rows) < MaxTicks
    /\ NotifyHandoverEndOkUe

NextCallbacks == DetectorTick \/ HandoverStartReported \/ HandoverEndReported

SpecCallbacks == InitDetector /\ [][NextCallbacks]_vars

\* Two detectors due at the same time.  main starts the detector of entity
\* i at 2.5 + 0.1 i s and each reschedules itself 0.5 s ahead, so the ticks
\* of entities 0 and 5 meet at 3.0 s and at every later tick; the last
\* entity stands for entity 5.  Of the events due at one time either may
\* run first, and the mobility provider reports any position of
\* SameTimePositions.
MaxSameTimeTicks == 5

SameTimePositions == {NearGnb0, NearGnb3, FarWest}

SameTimeEvents ==
    {Event(2500, NumReferees + 2, "LogPowerAndHandover", 0),
     Event(3000, NumReferees + 2 + 2 * (NumUe - 1), "LogPowerAndHandover",
           NumUe - 1)}

InitSameTime == InitState /\ events = SameTimeEvents

SameTimeTick ==
    /\ running
    /\ Len(powerFile.rows) < MaxSameTimeTicks
    /\ \E e \in events :
          /\ e.time = NextEvent.time
          /\ e.fn = "LogPowerAndHandover"
          /\ \E p \in SameTimePositions :
                /\ uePos' = [uePos EXCEPT ![e.ueId] = p]
                /\ LogPowerAndHandover(e, p)
    /\ UNCHANGED <<ueAngles, positionFile, flowVars, attachLog, unopenable>>

NextSameTime == SameTimeTick

SpecSameTime == InitSameTime /\ [][NextSameTime]_vars

\* The differencer at its scheduled times, the FlowMonitor holding any of
\* MonitorStates at each tick.
MaxFlowTicks == 2

\* The flows that become known: the uplink flows of the first referee and
\* of the first camera, the downlink flow and the unowned uplink flow.
ObservedFlowIds == {1, NumReferees + 1, DownlinkFlowId, UnownedUplinkFlowId}

InitFlow == InitState /\ events = TraceEvents

FlowTick ==
    /\ Fires("TraceFlowMonitorStats")
    /\ now < MaxFlowTicks * TracePeriod
    /\ \E stats \in MonitorStates(monitor, ObservedFlowIds) :
          TraceFlowMonitorStats(NextEvent, stats)

NextFlow == FlowTick

SpecFlow == InitFlow /\ [][NextFlow]_vars

\* The watchdog as the call of main that is commented out would start it
\* ("Simulator::Schedule(Seconds(2.0), &CheckAndReconnectUes, ...)", made
\* before the differencer is scheduled), with the differencer beside it: at
\* each tick of TrafficTimes the referees' uplink flows have all received
\* one more packet, or none has; at the other ticks none has.
MaxWatchdogChecks == 2

WatchdogEvents ==
    {Event(WatchdogPeriod, FirstFreeUid - 1, "CheckAndReconnectUes", 0)}

RefereeFlowIds == 1 .. NumReferees

\* Ticks 1.6 s, 1.5 s and 0.1 s before the first check, and 1.6 s and
\* 1.5 s before the second
TrafficTimes ==
    {WatchdogPeriod - InactivityThreshold - TracePeriod,
     WatchdogPeriod - InactivityThreshold,
     WatchdogPeriod - TracePeriod,
     2 * WatchdogPeriod - InactivityThreshold - TracePeriod,
     2 * WatchdogPeriod - InactivityThreshold}

RefereeTraffic(stats, time) ==
    LET known == [f \in RefereeFlowIds |->
                     IF f \in DOMAIN stats THEN stats[f] ELSE ZeroStats]
    IN  IF time \in TrafficTimes
        THEN {known, [f \in RefereeFlowIds |-> AddStats(known[f], OnePacket)]}
        ELSE {known}

\* The activity maps the watchdog is given: the one main builds (every
\* referee at 0.0) and those that lack some referees.
ActivityMaps ==
    {[n \in known |-> 0] : known \in SUBSET RefereeNodeIds}

InitWatchdog ==
    /\ \E activity \in ActivityMaps : InitWith(activity)
    /\ unopenable = {}
    /\ events = WatchdogEvents \cup TraceEvents

WithinWatchdogChecks == NextEvent.time <= MaxWatchdogChecks * WatchdogPeriod

WatchdogTick ==
    /\ Fires("CheckAndReconnectUes")
    /\ WithinWatchdogChecks
    /\ CheckAndReconnectUes(NextEvent)

WatchdogTraceTick ==
    /\ Fires("TraceFlowMonitorStats")
    /\ WithinWatchdogChecks
    /\ \E stats \in RefereeTraffic(monitor, NextEvent.time) :
          TraceFlowMonitorStats(NextEvent, stats)

NextWatchdog == WatchdogTick \/ WatchdogTraceTick

SpecWatchdog == InitWatchdog /\ [][NextWatchdog]_vars

\* ------------------------------------------------------------------------
\* Properties of the detector
\* ------------------------------------------------------------------------
Last(seq) == seq[Len(seq)]

\* A step that runs LogPowerAndHandover for ueId: its event leaves the queue.
DetectorStep(ueId) ==
    \E e \in events :
        e.fn = "LogPowerAndHandover" /\ e.ueId = ueId /\ e \notin events'

\* The cell the tick of this step selects for ueId
Selected(ueId) == BestGnb(uePos'[ueId]).gnbId

\* This step appends one line about ueId to the handover log / none
EventRecorded(ueId) ==
    /\ Len(handoverFile'.rows) = Len(handoverFile.rows) + 1
    /\ handoverFile'.rows = Append(handoverFile.rows, Last(handoverFile'.rows))
    /\ Last(handoverFile'.rows).ueId = ueId
NoEventRecorded == handoverFile'.rows = handoverFile.rows

\* The step finds a serving cell stored for ueId that is not the selected one
ChangeObserved(ueId) ==
    /\ ueId \in DOMAIN previousServingCell
    /\ previousServingCell[ueId] # Selected(ueId)

\* C1: in every detector tick a HandoverEvent is recorded if and only if a
\* serving cell was already stored for the entity and the newly computed
\* best cell differs from it.
C1_EventIffChange ==
    [][\A ueId \in UeIds :
          DetectorStep(ueId) =>
              IF ChangeObserved(ueId) THEN EventRecorded(ueId)
              ELSE NoEventRecorded]_vars

\* An event has been recorded, and a later tick of a UE with a stored cell
\* recorded none.
C1_Witness ==
    /\ Len(handoverFile.rows) >= 1
    /\ \E i \in 1 .. Len(powerFile.rows) :
          /\ powerFile.rows[i].handover = "NO"
          /\ \E j \in 1 .. (i - 1) :
                powerFile.rows[j].ueId = powerFile.rows[i].ueId

\* C2: over any sequence of ticks of any components the global handover
\* counter never decreases; it increases by exactly 1 in a detector tick
\* that observes a best-cell change and by 0 in every other tick.
C2_CounterSteps ==
    [][/\ handoverCount' >= handoverCount
       /\ IF \E ueId \in UeIds : DetectorStep(ueId) /\ ChangeObserved(ueId)
          THEN handoverCount' = handoverCount + 1
          ELSE handoverCount' = handoverCount]_vars

\* The counter has been incremented, and ticks of every component ran.
C2_Witness ==
    /\ handoverCount >= 1
    /\ Len(flowStatsFile.rows) >= 1
    /\ Len(positionFile.rows) >= 1
    /\ ueAngles # <<>>

\* C3: at the first detector tick of an entity the selected best cell is
\* stored as its serving cell, no HandoverEvent is emitted and the handover
\* counter is unchanged.
C3_FirstTick ==
    [][\A ueId \in UeIds :
          (DetectorStep(ueId) /\ ueId \notin DOMAIN previousServingCell) =>
              /\ ueId \in DOMAIN previousServingCell'
              /\ previousServingCell'[ueId] = Selected(ueId)
              /\ NoEventRecorded
              /\ handoverCount' = handoverCount]_vars

\* Every UE has had its first tick and nothing more has happened.
C3_Witness ==
    /\ DOMAIN previousServingCell = UeIds
    /\ Len(powerFile.rows) = NumUe
    /\ handoverCount = 0
    /\ handoverFile.rows = <<>>

\* The cells at minimum 3D distance from a position
NearestGnbs(p) ==
    {g \in GnbIds :
        \A h \in GnbIds : ~BigLess(Distance2(p, GnbPos(h)), Distance2(p, GnbPos(g)))}

\* C4: if an entity is nearest to cell A at one detector tick and nearest to
\* a different cell B at its next detector tick, exactly one HandoverEvent
\* is recorded, with source A and target B, and the global handover counter
\* increases by exactly 1.
C4_NearestChangeRecorded ==
    [][\A ueId \in UeIds : \A a, b \in GnbIds :
          (/\ DetectorStep(ueId)
           /\ ueId \in DOMAIN previousServingCell
           /\ NearestGnbs(uePos[ueId]) = {a}
           /\ NearestGnbs(uePos'[ueId]) = {b}
           /\ a # b) =>
              /\ EventRecorded(ueId)
              /\ Last(handoverFile'.rows).from = a
              /\ Last(handoverFile'.rows).to = b
              /\ handoverCount' = handoverCount + 1]_vars

\* C5: after every detector tick for an entity exactly one serving-cell
\* value is stored for it and it equals the best cell selected in that tick,
\* whether or not a handover was detected; no other entity's value changes.
C5_StoredIsSelected ==
    [][\A ueId \in UeIds :
          DetectorStep(ueId) =>
              /\ DOMAIN previousServingCell' = DOMAIN previousServingCell \cup {ueId}
              /\ previousServingCell'[ueId] = Selected(ueId)
              /\ \A u \in DOMAIN previousServingCell \ {ueId} :
                    previousServingCell'[u] = previousServingCell[u]]_vars

\* A stored serving cell has been overwritten by a tick that detected a
\* handover and kept by one that did not.
C5_Witness ==
    \E i, j \in 1 .. Len(powerFile.rows) :
        /\ i < j
        /\ powerFile.rows[i].ueId = powerFile.rows[j].ueId
        /\ powerFile.rows[i].handover = "YES"
        /\ powerFile.rows[j].handover = "NO"
        /\ previousServingCell[powerFile.rows[j].ueId] = powerFile.rows[j].bestGnbId

\* C6: every detector tick appends exactly one row to the measurement log;
\* the row's handover flag is YES exactly when a HandoverEvent was recorded
\* in that tick; the handover log gets a line only on a change.
C6_OneRowPerTick ==
    [][\A ueId \in UeIds :
          DetectorStep(ueId) =>
              /\ powerFile'.rows = Append(powerFile.rows, Last(powerFile'.rows))
              /\ Last(powerFile'.rows).ueId = ueId
              /\ Last(powerFile'.rows).time = now'
              /\ IF Last(powerFile'.rows).handover = "YES"
                 THEN EventRecorded(ueId) /\ ChangeObserved(ueId)
                 ELSE /\ Last(powerFile'.rows).handover = "NO"
                      /\ NoEventRecorded
                      /\ ~ChangeObserved(ueId)]_vars

\* The measurement log holds a row flagged YES and a row flagged NO.
C6_Witness ==
    /\ \E i \in 1 .. Len(powerFile.rows) : powerFile.rows[i].handover = "YES"
    /\ \E i \in 1 .. Len(powerFile.rows) : powerFile.rows[i].handover = "NO"
    /\ Len(handoverFile.rows) < Len(powerFile.rows)

\* The times at which a detector tick of ueId is pending
PendingDetector(ueId) ==
    {e.time : e \in {f \in events :
                        f.fn = "LogPowerAndHandover" /\ f.ueId = ueId}}

\* C7: the detector tick of every entity reschedules itself 0.5 s ahead
\* until the horizon is reached; after the first tick that runs at or past
\* the horizon no further detector tick of that entity is scheduled or run.
C7_ChainEndsAtHorizon ==
    [][\A ueId \in UeIds :
          IF DetectorStep(ueId)
          THEN PendingDetector(ueId)' =
                   IF now' < Horizon THEN {now' + DetectorPeriod} ELSE {}
          ELSE PendingDetector(ueId)' = PendingDetector(ueId)]_vars

\* Every UE's chain has ended: its last tick ran at or past the horizon and
\* none is pending.
C7_Witness ==
    \A ueId \in UeIds :
        /\ PendingDetector(ueId) = {}
        /\ \E i \in 1 .. Len(powerFile.rows) :
              powerFile.rows[i].ueId = ueId /\ powerFile.rows[i].time >= Horizon

\* C8: the signal proxy is strictly decreasing in the 3D distance, so for
\* every entity position the selected best cell is a cell at minimum 3D
\* distance from the entity.
C8_SelectedIsNearest ==
    \A ueId \in DOMAIN previousServingCell :
        previousServingCell[ueId] \in NearestGnbs(uePos[ueId])

\* The cells whose signal proxy is maximal at a position
MaxProxyGnbs(p) ==
    {g \in GnbIds :
        \A h \in GnbIds :
            ~RsrpGreater(Rsrp(Distance2(p, GnbPos(h))), Rsrp(Distance2(p, GnbPos(g))))}

MinOf(set) == CHOOSE m \in set : \A n \in set : m <= n

\* C9: when two or more cells yield the same maximal signal proxy for an
\* entity, the tied cell that comes first in the cell iteration (lowest
\* cell index) is selected.
C9_TieFirstInIteration ==
    \A ueId \in DOMAIN previousServingCell :
        Cardinality(MaxProxyGnbs(uePos[ueId])) >= 2 =>
            previousServingCell[ueId] = MinOf(MaxProxyGnbs(uePos[ueId]))

\* ------------------------------------------------------------------------
\* Properties of the differencer
\* ------------------------------------------------------------------------
\* A step that runs TraceFlowMonitorStats
TraceStep ==
    \E e \in events : e.fn = "TraceFlowMonitorStats" /\ e \notin events'

\* The rows this step appends to the flow-statistics log
NewFlowRows ==
    SubSeq(flowStatsFile'.rows, Len(flowStatsFile.rows) + 1,
           Len(flowStatsFile'.rows))

\* The snapshot a flow is compared with: the retained one, zero if none
Baseline(flowId) ==
    IF flowId \in DOMAIN lastFlowStats THEN lastFlowStats[flowId] ELSE ZeroStats

\* C10: in a differencer tick every delta of a flow (bytes, packets, delay
\* sum, jitter sum, lost packets) equals the current cumulative value when
\* the flow has no previous snapshot, and current minus previous otherwise.
C10_DeltasFromBaseline ==
    [][TraceStep =>
          /\ \A f \in DOMAIN monitor' :
                \E i \in 1 .. Len(NewFlowRows) : NewFlowRows[i].flowId = f
          /\ \A i \in 1 .. Len(NewFlowRows) :
                LET row == NewFlowRows[i]
                    cur == monitor'[row.flowId]
                    base == Baseline(row.flowId)
                    packets == cur.rxPackets - base.rxPackets
                IN  /\ row.packetLoss = cur.lostPackets - base.lostPackets
                    /\ packets > 0 =>
                          /\ RatioEq(row.throughput,
                                 Ratio((cur.rxBytes - base.rxBytes) * 8, 100))
                          /\ RatioEq(row.latency,
                                 Ratio(cur.delaySum - base.delaySum,
                                       1000 * packets))
                          /\ RatioEq(row.jitter,
                                 Ratio(cur.jitterSum - base.jitterSum,
                                       1000 * packets))]_vars

\* A flow was first seen with traffic and loss, and a later tick found more
\* of both.
C10_Witness ==
    \E i, j \in 1 .. Len(flowStatsFile.rows) :
        /\ i < j
        /\ flowStatsFile.rows[i].flowId = flowStatsFile.rows[j].flowId
        /\ flowStatsFile.rows[i].throughput.num > 0
        /\ flowStatsFile.rows[j].throughput.num > 0
        /\ \E k, l \in 1 .. Len(flowStatsFile.rows) :
              /\ k < l
              /\ flowStatsFile.rows[k].flowId = flowStatsFile.rows[l].flowId
              /\ flowStatsFile.rows[k].packetLoss > 0
              /\ flowStatsFile.rows[l].packetLoss > 0

\* The rows of flowStatsFile about one flow, by index
RowsOf(flowId) ==
    {i \in 1 .. Len(flowStatsFile.rows) : flowStatsFile.rows[i].flowId = flowId}

\* C11: in a differencer tick a flow whose received-packet count did not
\* increase since its previous snapshot is reported with throughput, latency
\* and jitter all zero, and no quotient of the tick has a zero divisor.
C11_ZeroWithoutNewPackets ==
    [][TraceStep =>
          \A i \in 1 .. Len(NewFlowRows) :
              LET row == NewFlowRows[i]
                  cur == monitor'[row.flowId]
                  base == Baseline(row.flowId)
              IN  /\ row.throughput.den # 0
                  /\ row.latency.den # 0
                  /\ row.jitter.den # 0
                  /\ cur.rxPackets <= base.rxPackets =>
                        /\ row.throughput.num = 0
                        /\ row.latency.num = 0
                        /\ row.jitter.num = 0]_vars

\* A flow that had received packets was seen again with an identical
\* snapshot and reported with zero rates.
C11_Witness ==
    \E f \in DOMAIN monitor : \E i, j \in RowsOf(f) :
        /\ i < j
        /\ flowStatsFile.rows[i].throughput.num > 0
        /\ flowStatsFile.rows[j].throughput.num = 0
        /\ flowStatsFile.rows[j].latency.num = 0
        /\ flowStatsFile.rows[j].jitter.num = 0
        /\ flowStatsFile.rows[j].time = now
        /\ monitor[f].rxPackets > 0

\* C12: for a flow whose received-packet delta is positive the reported
\* throughput in kbps is delta_bytes * 8 / (0.1 * 1000); snapshots
\* (rxBytes 0, rxPackets 0) then (rxBytes 12500, rxPackets 10) give 1000.
C12_ThroughputFormula ==
    [][TraceStep =>
          \A i \in 1 .. Len(NewFlowRows) :
              LET row == NewFlowRows[i]
                  cur == monitor'[row.flowId]
                  base == Baseline(row.flowId)
              IN  /\ cur.rxPackets > base.rxPackets =>
                        row.throughput.num * 100 =
                            (cur.rxBytes - base.rxBytes) * 8 * row.throughput.den
                  /\ (/\ row.flowId \in DOMAIN lastFlowStats
                      /\ base.rxBytes = 0 /\ base.rxPackets = 0
                      /\ cur.rxBytes = 12500 /\ cur.rxPackets = 10) =>
                        row.throughput.num = 1000 * row.throughput.den]_vars

\* A flow first seen with (0, 0) is at (12500, 10) one tick later and is
\* reported with 1000 kbps.
C12_Witness ==
    \E f \in DOMAIN monitor : \E i, j \in RowsOf(f) :
        /\ i < j
        /\ flowStatsFile.rows[i].throughput.num = 0
        /\ flowStatsFile.rows[j].time = flowStatsFile.rows[i].time + TracePeriod
        /\ flowStatsFile.rows[j].throughput.num =
               1000 * flowStatsFile.rows[j].throughput.den
        /\ monitor[f].rxBytes = 12500
        /\ monitor[f].rxPackets = 10

\* Every counter of cur is at least that of base
NonDecreasing(base, cur) ==
    /\ base.rxBytes <= cur.rxBytes
    /\ base.rxPackets <= cur.rxPackets
    /\ base.delaySum <= cur.delaySum
    /\ base.jitterSum <= cur.jitterSum
    /\ base.lostPackets <= cur.lostPackets

\* C13: if every cumulative counter of a flow is non-decreasing from tick
\* to tick, no delta of the differencer is negative; the unsigned 32-bit
\* packet-loss delta is the true difference and does not wrap around.
C13_NoNegativeDelta ==
    [][TraceStep =>
          \A i \in 1 .. Len(NewFlowRows) :
              LET row == NewFlowRows[i]
                  cur == monitor'[row.flowId]
                  base == Baseline(row.flowId)
              IN  NonDecreasing(base, cur) =>
                      /\ row.packetLoss >= 0
                      /\ row.packetLoss = cur.lostPackets - base.lostPackets
                      /\ row.throughput.num >= 0 /\ row.throughput.den > 0
                      /\ row.latency.num >= 0 /\ row.latency.den > 0
                      /\ row.jitter.num >= 0 /\ row.jitter.den > 0]_vars

\* A flow with losses in its snapshot has lost more and is reported with
\* the positive difference.
C13_Witness ==
    \E f \in DOMAIN monitor : \E i, j \in RowsOf(f) :
        /\ i < j
        /\ flowStatsFile.rows[i].packetLoss > 0
        /\ flowStatsFile.rows[j].packetLoss > 0
        /\ flowStatsFile.rows[j].packetLoss < monitor[f].lostPackets

\* C14: after every differencer tick the retained snapshot of every flow
\* observed in the tick equals the tick's cumulative counters; one
\* snapshot per flow id is retained: created on first observation,
\* replaced afterwards.
C14_SnapshotIsCurrent ==
    [][TraceStep =>
          /\ DOMAIN lastFlowStats' = DOMAIN lastFlowStats \cup DOMAIN monitor'
          /\ \A f \in DOMAIN monitor' : lastFlowStats'[f] = monitor'[f]
          /\ \A f \in DOMAIN lastFlowStats \ DOMAIN monitor' :
                lastFlowStats'[f] = lastFlowStats[f]]_vars

\* A snapshot was created at one tick and replaced by different counters
\* at a later one.
C14_Witness ==
    \E f \in DOMAIN lastFlowStats :
        /\ Cardinality(RowsOf(f)) >= 2
        /\ lastFlowStats[f] = monitor[f]
        /\ \E j \in RowsOf(f) :
              /\ flowStatsFile.rows[j].time = now
              /\ flowStatsFile.rows[j].throughput.num > 0
              /\ flowStatsFile.rows[j].latency.num * 10 <
                     monitor[f].delaySum * flowStatsFile.rows[j].latency.den

\* The uplink flows of mobile entity n that gained received packets in this
\* step's tick
ActiveUplinkOf(n) ==
    {f \in DOMAIN monitor' \cap UplinkFlowIds :
        /\ IsReferee(f - 1)
        /\ NodeIdOfUe(f - 1) = n
        /\ monitor'[f].rxPackets > Baseline(f).rxPackets}

\* C15: a differencer tick sets an entity's last-activity timestamp to the
\* current time exactly when it processes an uplink flow of a mobile entity
\* with a positive received-packet delta; downlink flows, static entities
\* and zero deltas leave every timestamp as it was.
C15_ActivityMarked ==
    [][TraceStep =>
          \A n \in NodeIds \cup DOMAIN lastRefereeActivityTime' :
              IF ActiveUplinkOf(n) # {}
              THEN /\ n \in DOMAIN lastRefereeActivityTime'
                   /\ lastRefereeActivityTime'[n] = now'
              ELSE /\ n \in DOMAIN lastRefereeActivityTime' <=>
                          n \in DOMAIN lastRefereeActivityTime
                   /\ n \in DOMAIN lastRefereeActivityTime =>
                          lastRefereeActivityTime'[n] =
                              lastRefereeActivityTime[n]]_vars

\* A referee's timestamp was set at one tick and kept at a later tick in
\* which a downlink flow received packets.
C15_Witness ==
    \E n \in RefereeNodeIds :
        /\ lastRefereeActivityTime[n] > 0
        /\ lastRefereeActivityTime[n] < now
        /\ \E i \in 1 .. Len(flowStatsFile.rows) :
              /\ flowStatsFile.rows[i].time = now
              /\ flowStatsFile.rows[i].direction = "DL"
              /\ flowStatsFile.rows[i].throughput.num > 0

\* The times at which a differencer tick is pending
PendingTrace == {e.time : e \in {f \in events : f.fn = "TraceFlowMonitorStats"}}

\* C16: every differencer tick reschedules itself 0.1 s ahead under no
\* condition: at every point of the run, also past the horizon at which the
\* other periodic ticks stop, a differencer tick is pending.
C16_TraceAlwaysPending ==
    [][/\ TraceStep => (now' + TracePeriod) \in PendingTrace'
       /\ \E t \in PendingTrace' : t >= now']_vars

\* The run has ended; differencer ticks ran past the horizon and one is
\* still pending, while no detector tick is.
C16_Witness ==
    /\ ~running
    /\ PendingTrace # {}
    /\ \A ueId \in UeIds : PendingDetector(ueId) = {}
    /\ \E i \in 1 .. Len(flowStatsFile.rows) :
          flowStatsFile.rows[i].time > Horizon

\* C17: every differencer tick appends exactly one row to the
\* flow-statistics log for every known flow, whether or not the flow had
\* activity in the interval.
C17_OneRowPerFlow ==
    [][TraceStep =>
          /\ flowStatsFile'.rows = flowStatsFile.rows \o NewFlowRows
          /\ Len(NewFlowRows) = Cardinality(DOMAIN monitor')
          /\ \A f \in DOMAIN monitor' :
                Cardinality({i \in 1 .. Len(NewFlowRows) :
                                NewFlowRows[i].flowId = f}) = 1
          /\ \A i \in 1 .. Len(NewFlowRows) : NewFlowRows[i].time = now']_vars

\* Two flows are known; the last tick logged a row for an active one and a
\* row for an idle one.
C17_Witness ==
    /\ Cardinality(DOMAIN monitor) >= 2
    /\ \E i, j \in 1 .. Len(flowStatsFile.rows) :
          /\ flowStatsFile.rows[i].time = now
          /\ flowStatsFile.rows[j].time = now
          /\ flowStatsFile.rows[i].throughput.num > 0
          /\ flowStatsFile.rows[j].throughput.num = 0
          /\ flowStatsFile.rows[j].packetLoss = 0
          /\ Cardinality(RowsOf(flowStatsFile.rows[j].flowId)) >= 2

\* The UE-side address of a flow, and whether some node holds it
UeSideAddress(flowId) ==
    IF FindFlow(flowId).sourceAddress[1] = 7
    THEN FindFlow(flowId).sourceAddress
    ELSE FindFlow(flowId).destinationAddress
Unresolvable(flowId) ==
    \A n \in NodeIds : NodeAddress(n) # UeSideAddress(flowId)

\* C18: when a flow's address resolves to no entity the differencer tick
\* completes, the entity id of the flow's row is the sentinel 0 and the row
\* is logged in that tick.
C18_UnresolvedLoggedAsZero ==
    [][TraceStep =>
          \A f \in DOMAIN monitor' :
              Unresolvable(f) =>
                  \E i \in 1 .. Len(NewFlowRows) :
                      /\ NewFlowRows[i].flowId = f
                      /\ NewFlowRows[i].ueId = 0
                      /\ NewFlowRows[i].time = now']_vars

\* The log holds a row of the unowned flow with traffic and entity id 0,
\* and a row of a resolved flow.
C18_Witness ==
    /\ \E i \in 1 .. Len(flowStatsFile.rows) :
          /\ flowStatsFile.rows[i].flowId = UnownedUplinkFlowId
          /\ flowStatsFile.rows[i].ueId = 0
          /\ flowStatsFile.rows[i].throughput.num > 0
    /\ \E i \in 1 .. Len(flowStatsFile.rows) : flowStatsFile.rows[i].ueId # 0

\* ------------------------------------------------------------------------
\* Properties of the watchdog
\* ------------------------------------------------------------------------
\* A step that runs CheckAndReconnectUes
WatchdogStep ==
    \E e \in events : e.fn = "CheckAndReconnectUes" /\ e \notin events'

\* The attachment calls this step makes
NewAttachments == SubSeq(attachLog', Len(attachLog) + 1, Len(attachLog'))

\* The calls of NewAttachments that hold node n
AttachmentsOf(n) ==
    {i \in 1 .. Len(NewAttachments) :
        \E k \in 1 .. Len(NewAttachments[i].singleUe) :
            NewAttachments[i].singleUe[k] = n}

\* C19: in a watchdog tick a mobile entity is force-reattached if and only
\* if the time since its last activity strictly exceeds 1.5 s or it was
\* never observed active; each reattachment is of that entity alone and
\* resets its last-activity timestamp to the current time.
C19_ReattachIffInactive ==
    [][WatchdogStep =>
          /\ attachLog' = attachLog \o NewAttachments
          /\ \A n \in NodeIds :
                LET inactive ==
                        /\ n \in RefereeNodeIds
                        /\ \/ n \notin DOMAIN lastRefereeActivityTime
                           \/ now' - lastRefereeActivityTime[n]
                                  > InactivityThreshold
                IN  IF inactive
                    THEN /\ Cardinality(AttachmentsOf(n)) = 1
                         /\ \A i \in AttachmentsOf(n) :
                               /\ NewAttachments[i].singleUe = <<n>>
                               /\ NewAttachments[i].time = now'
                         /\ lastRefereeActivityTime'[n] = now'
                    ELSE /\ AttachmentsOf(n) = {}
                         /\ n \in DOMAIN lastRefereeActivityTime =>
                               lastRefereeActivityTime'[n] =
                                   lastRefereeActivityTime[n]]_vars

\* One check reattached a referee silent for longer than the threshold, and
\* a check left alone a referee active exactly 1.5 s before it.
C19_Witness ==
    /\ Len(attachLog) >= 1
    /\ now >= 2 * WatchdogPeriod
    /\ \E n \in RefereeNodeIds : \E t \in {WatchdogPeriod, 2 * WatchdogPeriod} :
          /\ \A i \in 1 .. Len(attachLog) : attachLog[i].time # t
          /\ \E i \in 1 .. Len(flowStatsFile.rows) :
                /\ flowStatsFile.rows[i].ueId = n
                /\ flowStatsFile.rows[i].time = t - InactivityThreshold
                /\ flowStatsFile.rows[i].throughput.num > 0
          /\ \A i \in 1 .. Len(flowStatsFile.rows) :
                (/\ flowStatsFile.rows[i].time > t - InactivityThreshold
                 /\ flowStatsFile.rows[i].time < t) =>
                    flowStatsFile.rows[i].throughput.num = 0

\* The referee n was reattached by the watchdog at time t
ReattachedAt(n, t) ==
    \E i \in 1 .. Len(attachLog) :
        attachLog[i].time = t /\ attachLog[i].singleUe = <<n>>

\* The differencer saw uplink traffic of n at a tick of [from, until)
TrafficSeen(n, from, until) ==
    \E i \in 1 .. Len(flowStatsFile.rows) :
        /\ flowStatsFile.rows[i].ueId = n
        /\ flowStatsFile.rows[i].direction = "UL"
        /\ flowStatsFile.rows[i].time >= from
        /\ flowStatsFile.rows[i].time < until
        /\ flowStatsFile.rows[i].throughput.num > 0

\* C20: after the watchdog reattached a mobile entity at time T, the next
\* watchdog check, at T plus the watchdog interval, does not reattach the
\* entity again if no uplink traffic of it was observed in between.
C20_NoImmediateRetrigger ==
    [][WatchdogStep =>
          \A n \in RefereeNodeIds :
              (/\ ReattachedAt(n, now' - WatchdogPeriod)
               /\ ~TrafficSeen(n, now' - WatchdogPeriod, now')) =>
                  AttachmentsOf(n) = {}]_vars

\* The nodes of the static entities (cameras)
CameraNodeIds == {NodeIdOfUe(i) : i \in NumReferees .. (NumUe - 1)}

\* C22: the watchdog checks mobile entities only: in every watchdog tick no
\* static entity is reattached and no last-activity timestamp of a static
\* entity is created or modified.
C22_StaticNeverChecked ==
    [][WatchdogStep =>
          \A n \in NodeIds \ RefereeNodeIds :
              /\ AttachmentsOf(n) = {}
              /\ n \in DOMAIN lastRefereeActivityTime' <=>
                     n \in DOMAIN lastRefereeActivityTime
              /\ n \in DOMAIN lastRefereeActivityTime =>
                     lastRefereeActivityTime'[n] = lastRefereeActivityTime[n]]_vars

\* A check has reattached a referee and left the cameras, which have no
\* timestamp and have sent nothing, alone.
C22_Witness ==
    /\ CameraNodeIds # {}
    /\ \E i \in 1 .. Len(attachLog) :
          attachLog[i].singleUe[1] \in RefereeNodeIds
    /\ \A n \in CameraNodeIds :
          /\ n \notin DOMAIN lastRefereeActivityTime
          /\ \A i \in 1 .. Len(attachLog) : attachLog[i].singleUe # <<n>>
          /\ \A i \in 1 .. Len(flowStatsFile.rows) : flowStatsFile.rows[i].ueId # n

\* C23: a mobile entity with no recorded last-activity timestamp is treated
\* by the watchdog as silent for an unbounded time: it is reattached at the
\* watchdog tick, whatever the time, and its timestamp is set to the
\* current time.
C23_NeverObservedReattached ==
    [][WatchdogStep =>
          \A n \in RefereeNodeIds :
              n \notin DOMAIN lastRefereeActivityTime =>
                  /\ \E i \in 1 .. Len(NewAttachments) :
                        /\ NewAttachments[i].singleUe = <<n>>
                        /\ NewAttachments[i].elapsed < 0
                  /\ n \in DOMAIN lastRefereeActivityTime'
                  /\ lastRefereeActivityTime'[n] = now']_vars

\* A referee without a timestamp was reattached, its elapsed time being
\* reported as unknown, and holds the time of that check as its timestamp.
C23_Witness ==
    \E i \in 1 .. Len(attachLog) :
        /\ attachLog[i].elapsed < 0
        /\ attachLog[i].singleUe[1] \in DOMAIN lastRefereeActivityTime
        /\ lastRefereeActivityTime[attachLog[i].singleUe[1]] = attachLog[i].time
        /\ now = attachLog[i].time

\* ------------------------------------------------------------------------
\* Properties of the run
\* ------------------------------------------------------------------------
\* The times at which a watchdog tick is pending
PendingWatchdog == {e.time : e \in {f \in events : f.fn = "CheckAndReconnectUes"}}

\* C21: during a run the watchdog tick executes at its fixed interval and
\* keeps rescheduling itself until the horizon, so that a mobile entity
\* silent for longer than the inactivity threshold is force-reattached at a
\* following watchdog tick.
C21_WatchdogRuns ==
    /\ (running /\ now < Horizon) => PendingWatchdog # {}
    /\ \A n \in RefereeNodeIds :
          (/\ n \in DOMAIN lastRefereeActivityTime
           /\ now - lastRefereeActivityTime[n]
                  > InactivityThreshold + WatchdogPeriod) =>
              \E i \in 1 .. Len(attachLog) : attachLog[i].singleUe = <<n>>

\* C24: two independent handover counters are kept: manualHandoverCount is
\* incremented only by the detector's own detection, simStats.handovers
\* only by the callback that reports a completed handover of the protocol
\* layer, so a detector tick never changes simStats.handovers.
C24_CountersIndependent ==
    [][\A ueId \in UeIds :
          DetectorStep(ueId) =>
              /\ simStats'.handovers = simStats.handovers
              /\ manualHandoverCount' =
                     IF ChangeObserved(ueId) THEN manualHandoverCount + 1
                     ELSE manualHandoverCount]_vars

\* C25: when the run has ended the final report has been executed and none
\* of the four log streams is open.
C25_StreamsClosedAtEnd ==
    ~running =>
        /\ ~handoverFile.isOpen
        /\ ~positionFile.isOpen
        /\ ~powerFile.isOpen
        /\ ~flowStatsFile.isOpen

\* The times between consecutive position records of one entity
PositionGaps ==
    {positionFile.rows[j].time - positionFile.rows[i].time :
        <<i, j>> \in
            {p \in (1 .. Len(positionFile.rows)) \X (1 .. Len(positionFile.rows)) :
                /\ p[1] < p[2]
                /\ positionFile.rows[p[1]].ueId = positionFile.rows[p[2]].ueId
                /\ \A k \in (p[1] + 1) .. (p[2] - 1) :
                      positionFile.rows[k].ueId # positionFile.rows[p[1]].ueId}}

\* C26: every entity is sampled at one fixed interval: consecutive position
\* records of one entity are always the same time apart, the same for all
\* entities (the stagger offset shifts the first sample only).
C26_OneSamplingInterval == Cardinality(PositionGaps) <= 1

\* A step that runs TrackUePosition for ueId
TrackStep(ueId) ==
    \E e \in events :
        e.fn = "TrackUePosition" /\ e.ueId = ueId /\ e \notin events'

\* The times at which a telemetry tick of ueId is pending
PendingTrack(ueId) ==
    {e.time : e \in {f \in events : f.fn = "TrackUePosition" /\ f.ueId = ueId}}

\* C27: a telemetry tick that runs at or past the horizon schedules no
\* successor, one that runs before it schedules exactly one, so every
\* entity's telemetry chain ends.
C27_TrackEndsAtHorizon ==
    [][\A ueId \in UeIds :
          IF TrackStep(ueId)
          THEN IF now' >= Horizon
               THEN PendingTrack(ueId)' = {}
               ELSE /\ Cardinality(PendingTrack(ueId)') = 1
                    /\ \A t \in PendingTrack(ueId)' : t > now'
          ELSE PendingTrack(ueId)' = PendingTrack(ueId)]_vars

\* The telemetry chain of some entity has run a tick at or past the horizon
\* and has none pending.
C27_Witness ==
    \E ueId \in UeIds :
        /\ PendingTrack(ueId) = {}
        /\ \E i \in 1 .. Len(positionFile.rows) :
              /\ positionFile.rows[i].ueId = ueId
              /\ positionFile.rows[i].time >= Horizon

\* C28: every telemetry record of a mobile entity that MoveArbitroCircular
\* drives around the field circle reports a speed within tolerance (1 dm/s)
\* of R*w = 5 m/s.
C28_SpeedOnCircle ==
    \A i \in 1 .. Len(positionFile.rows) :
        (/\ IsReferee(positionFile.rows[i].ueId)
         /\ positionFile.rows[i].ueId \in DOMAIN ueAngles) =>
            Abs(positionFile.rows[i].speed - ArbitroSpeed) <= 1

\* C30: an entity has one id: the id of the position and measurement logs,
\* which keys its stored serving cell, is the id under which its uplink
\* flow appears in the flow-statistics log and which keys its last-activity
\* timestamp.
C30_OneIdPerEntity ==
    /\ \A i \in 1 .. Len(flowStatsFile.rows) : \A ueId \in UeIds :
          (/\ flowStatsFile.rows[i].direction = "UL"
           /\ flowStatsFile.rows[i].src = UeAddress(ueId)) =>
              flowStatsFile.rows[i].ueId = ueId
    /\ \A n \in DOMAIN lastRefereeActivityTime :
          n \in UeIds /\ IsReferee(n)

\* The four streams by name
Stream(name) ==
    CASE name = "powerFile" -> powerFile
      [] name = "handoverFile" -> handoverFile
      [] name = "positionFile" -> positionFile
      [] name = "flowStatsFile" -> flowStatsFile

\* The lines on the console that are none of the routine ones
FailureReports ==
    console \ {"Position Report", "HANDOVER", "RECONNECT", "HANDOVER_OK",
               "HANDOVER_START"}

\* C29: when an output file could not be opened the run has reported the
\* failure and nothing is logged to that stream, while the other streams
\* go on.
C29_OpenFailureReported ==
    \A name \in StreamNames :
        Stream(name).fail =>
            /\ FailureReports # {}
            /\ Stream(name).rows = <<>>

\* ------------------------------------------------------------------------
\* Further properties of the detector
\* ------------------------------------------------------------------------
\* C31: every HandoverEvent carries as source the serving cell stored for
\* the entity before the tick and as target the newly selected best cell,
\* which differ, and as running total the global handover counter after its
\* increment: the k-th event of the run carries running total k.
C31_EventFields ==
    [][/\ \A ueId \in UeIds :
             (DetectorStep(ueId) /\ EventRecorded(ueId)) =>
                 /\ ueId \in DOMAIN previousServingCell
                 /\ Last(handoverFile'.rows).from = previousServingCell[ueId]
                 /\ Last(handoverFile'.rows).to = Selected(ueId)
                 /\ Last(handoverFile'.rows).from # Last(handoverFile'.rows).to
                 /\ Last(handoverFile'.rows).total = handoverCount'
       /\ \A k \in 1 .. Len(handoverFile'.rows) :
             handoverFile'.rows[k].total = k]_vars

\* Two events of different entities have been recorded, the second one
\* leaving the cell the first one entered.
C31_Witness ==
    /\ Len(handoverFile.rows) >= 2
    /\ handoverFile.rows[1].ueId # handoverFile.rows[2].ueId
    /\ handoverFile.rows[2].from = handoverFile.rows[1].to
    /\ handoverFile.rows[2].total = 2

\* C32: in every reachable state the three handover counters handoverCount,
\* manualHandoverCount and simStats.handovers are equal; a step that is no
\* detector tick (a callback of the protocol layer included) changes none
\* of them.
C32_CountersEqual ==
    /\ [](/\ handoverCount = manualHandoverCount
          /\ handoverCount = simStats.handovers)
    /\ [][(\A ueId \in UeIds : ~DetectorStep(ueId)) =>
              /\ handoverCount' = handoverCount
              /\ manualHandoverCount' = manualHandoverCount
              /\ simStats' = simStats]_vars

\* The detector has counted two handovers and both callbacks of the
\* protocol layer have run.
C32_Witness ==
    /\ handoverCount = 2
    /\ {"HANDOVER_OK", "HANDOVER_START"} \subseteq console

\* The rows of the measurement log flagged YES
FlaggedRows == {i \in 1 .. Len(powerFile.rows) : powerFile.rows[i].handover = "YES"}

\* C33: in every reachable state, all log files openable, the number of
\* measurement-log rows flagged YES equals the number of lines of the
\* handover log and equals the global handover counter.
C33_FlagsLinesCounter ==
    /\ Cardinality(FlaggedRows) = Len(handoverFile.rows)
    /\ Len(handoverFile.rows) = handoverCount

\* Three handovers have been counted among five measurements.
C33_Witness ==
    /\ handoverCount = 3
    /\ Cardinality(FlaggedRows) = 3
    /\ Len(powerFile.rows) = 5

\* C34: the detector is idempotent on an unchanged position: a tick of an
\* entity whose position is the one of its previous tick records no
\* HandoverEvent and leaves the stored serving cells and the handover
\* counter unchanged.
C34_IdempotentOnSamePosition ==
    [][\A ueId \in UeIds :
          (/\ DetectorStep(ueId)
           /\ ueId \in DOMAIN previousServingCell
           /\ uePos'[ueId] = uePos[ueId]) =>
              /\ NoEventRecorded
              /\ previousServingCell' = previousServingCell
              /\ handoverCount' = handoverCount]_vars

\* The measurement rows of ueId, in order
PowerRowsOf(ueId) ==
    SelectSeq(powerFile.rows, LAMBDA row : row.ueId = ueId)

\* An entity that had changed cell has been measured twice in a row at the
\* same place near gNB 3 while the other entity was elsewhere; the second
\* measurement is not flagged.
C34_Witness ==
    \E ueId \in UeIds :
        LET rows == PowerRowsOf(ueId)
        IN  /\ Len(rows) >= 3
            /\ uePos[ueId] = NearGnb3
            /\ rows[Len(rows)].bestGnbId = 3
            /\ rows[Len(rows)].handover = "NO"
            /\ rows[Len(rows) - 1].handover = "YES"
            /\ rows[Len(rows) - 1].distance = rows[Len(rows)].distance
            /\ \E other \in DOMAIN previousServingCell :
                  previousServingCell[other] # 3

\* ------------------------------------------------------------------------
\* Further properties of the watchdog and of the last-activity timestamps
\* ------------------------------------------------------------------------
\* C35: a mobile entity whose last-activity timestamp is within the
\* inactivity threshold at a watchdog tick (now - last <= 1.5 s, boundary
\* included) is not reattached by that tick and keeps its timestamp.
C35_ActiveLeftAlone ==
    [][WatchdogStep =>
          \A n \in RefereeNodeIds :
              (/\ n \in DOMAIN lastRefereeActivityTime
               /\ now' - lastRefereeActivityTime[n] <= InactivityThreshold) =>
                  /\ AttachmentsOf(n) = {}
                  /\ lastRefereeActivityTime'[n] = lastRefereeActivityTime[n]]_vars

\* The first check has run, found a referee whose uplink flow had last
\* delivered exactly 1.5 s earlier, and reattached nobody.
C35_Witness ==
    /\ PendingWatchdog = {2 * WatchdogPeriod}
    /\ attachLog = <<>>
    /\ \E n \in RefereeNodeIds :
          /\ n \in DOMAIN lastRefereeActivityTime
          /\ lastRefereeActivityTime[n] = WatchdogPeriod - InactivityThreshold

\* C36: in every reachable state last-activity timestamps exist only for
\* mobile entities and none is later than the current simulated time; over
\* any sequence of differencer and watchdog ticks no entity's timestamp
\* disappears or decreases.
C36_TimestampsMonotonic ==
    /\ [](/\ DOMAIN lastRefereeActivityTime \subseteq RefereeNodeIds
          /\ \A n \in DOMAIN lastRefereeActivityTime :
                lastRefereeActivityTime[n] <= now)
    /\ [][\A n \in DOMAIN lastRefereeActivityTime :
             /\ n \in DOMAIN lastRefereeActivityTime'
             /\ lastRefereeActivityTime'[n] >= lastRefereeActivityTime[n]]_vars

\* A referee's timestamp was set by the watchdog at the first check, then
\* advanced by the differencer, and is now in the past.
C36_Witness ==
    \E n \in RefereeNodeIds :
        /\ ReattachedAt(n, WatchdogPeriod)
        /\ n \in DOMAIN lastRefereeActivityTime
        /\ lastRefereeActivityTime[n] > WatchdogPeriod
        /\ lastRefereeActivityTime[n] < now

\* The flows whose received-packet count grew in this differencer tick
GrownFlows ==
    {f \in DOMAIN monitor' : monitor'[f].rxPackets > Baseline(f).rxPackets}

\* C37: a flow whose address is unresolved (entity id sentinel 0) never
\* updates a last-activity timestamp: 0 is the id of no mobile entity and
\* never becomes a key, and a differencer tick in which only unresolved
\* flows received packets leaves every timestamp as it was.
C37_UnresolvedMarksNobody ==
    [][TraceStep =>
          /\ 0 \notin RefereeNodeIds
          /\ 0 \notin DOMAIN lastRefereeActivityTime'
          /\ (\A f \in GrownFlows : Unresolvable(f)) =>
                 lastRefereeActivityTime' = lastRefereeActivityTime]_vars

\* The unowned uplink flow has delivered packets, logged under entity id 0,
\* and every timestamp is still the initial one.
C37_Witness ==
    /\ \E i \in 1 .. Len(flowStatsFile.rows) :
          /\ flowStatsFile.rows[i].flowId = UnownedUplinkFlowId
          /\ flowStatsFile.rows[i].direction = "UL"
          /\ flowStatsFile.rows[i].ueId = 0
          /\ flowStatsFile.rows[i].throughput.num > 0
    /\ lastRefereeActivityTime = RefereesAtZero
    /\ now > 0

\* C38: in every detector tick the logged triple (best cell id, signal
\* level, distance) describes one existing cell: the id is the index of a
\* cell, and the level and the distance are that cell's proxy value and 3D
\* distance to the entity, wherever the entity is.
C38_TripleDescribesCell ==
    [][\A ueId \in UeIds :
          DetectorStep(ueId) =>
              LET row == Last(powerFile'.rows)
              IN  /\ row.bestGnbId \in GnbIds
                  /\ row.distance =
                         Distance2(uePos'[ueId], GnbPos(row.bestGnbId))
                  /\ row.rsrp = Rsrp(row.distance)]_vars

\* ------------------------------------------------------------------------
\* Detector ticks due at the same time
\* ------------------------------------------------------------------------
\* The HandoverEvents of a sequence of lines, as (source, target, entity)
HandoverEventsOf(lines) ==
    {<<lines[i].from, lines[i].to, lines[i].ueId>> : i \in 1 .. Len(lines)}

\* The detector's data in the current state
DetectorData ==
    [prev |-> previousServingCell, count |-> handoverCount,
     lines |-> handoverFile.rows]

\* The entities other than ueId whose detector tick is due at time
DueWith(ueId, time) ==
    {e.ueId : e \in {f \in events' :
                        /\ f.fn = "LogPowerAndHandover"
                        /\ f.time = time
                        /\ f.ueId # ueId}}

\* C39: detector ticks of two different entities due at the same simulated
\* time commute: a tick of u is the function AfterDetector of the state it
\* starts in, and for every entity v due at the same time, at whatever
\* position, running u then v and running v then u give the same stored
\* serving cells, the same handover counter and the same set of
\* HandoverEvents (source, target, entity).
C39_SameTimeTicksCommute ==
    [][\A u \in UeIds :
          DetectorStep(u) =>
              LET first == AfterDetector(DetectorData, u, uePos'[u], now')
              IN  /\ previousServingCell' = first.prev
                  /\ handoverCount' = first.count
                  /\ handoverFile'.rows = first.lines
                  /\ \A v \in DueWith(u, now') : \A q \in SameTimePositions :
                        LET uv == AfterDetector(first, v, q, now')
                            vu == AfterDetector(
                                      AfterDetector(DetectorData, v, q, now'),
                                      u, uePos'[u], now')
                        IN  /\ uv.prev = vu.prev
                            /\ uv.count = vu.count
                            /\ HandoverEventsOf(uv.lines) =
                                   HandoverEventsOf(vu.lines)]_vars

\* Two ticks due at the same time have both recorded a HandoverEvent, the
\* one scheduled later having run first.
C39_Witness ==
    \E i \in 1 .. (Len(handoverFile.rows) - 1) :
        /\ handoverFile.rows[i].time = handoverFile.rows[i + 1].time
        /\ handoverFile.rows[i].ueId = 0
        /\ handoverFile.rows[i + 1].ueId = NumUe - 1
        /\ handoverCount = i + 1

====
